---- MODULE Spec2Model ----
(***************************************************************************)
(* Model of the partial-I/O transfer buffer `Body` of src/server/http.rs:  *)
(* a byte vector `data` and a cursor `pos`, filled by read_from and        *)
(* drained by write_to across non-blocking attempts, reused with reset.    *)
(***************************************************************************)
EXTENDS Integers, Sequences, FiniteSets, TLC

(* ------------------------------ bounds --------------------------------- *)
\* largest payload size passed to reset in the content-carrying model
MaxSize == 2
\* byte values are 0..MaxByte (0 is the fill value of Vec::resize)
MaxByte == 1
\* endpoint attempts recorded between two resets
MaxHist == 2
\* largest payload size of the zero-filled model (the 4 + 6 = 10 scenario)
WideSize == 10
\* endpoint attempts recorded between two resets in the zero-filled model
WideHist == 3
\* largest payload size of the one-byte-per-call model
ByteSize == 5
\* largest payload size of the reader model and of the writer model
StreamSize == 2
\* endpoint attempts recorded between two resets in those two models
StreamHist == 3
\* attempts and direct changes recorded between two resets when the caller
\* changes data and pos directly
MutHist == 2
\* largest payload size of the model of one transfer run to completion
LiveSize == 2
\* would-block answers the endpoint gives during that transfer
LiveHist == 1

(* ------------------------------ state ---------------------------------- *)
VARIABLES
    pos,        \* Body.pos
    data,       \* Body.data, a sequence of bytes (1-based here, 0-based in Rust)
    size,       \* the size handed to the last reset (0 for Body::default)
    op,         \* the method called last
    ret,        \* what that call returned
    offered,    \* the endpoint handed to that call (how it would answer one attempt)
    attempts,   \* how many times that call invoked the endpoint
    request,    \* the slice that call passed to the endpoint: offset and length
    hist        \* the endpoint's answers since the last reset, oldest first,
                \* with a mark for each direct change of data or pos by the caller

vars == <<pos, data, size, op, ret, offered, attempts, request, hist>>

(* ------------------------------ helpers -------------------------------- *)
Min(a, b) == IF a <= b THEN a ELSE b

Bytes == 0..MaxByte

SeqsUpTo(S, n) == UNION {[1..k -> S] : k \in 0..n}

\* a resize that only ever grows the vector
Resize_GrowOnly(v, new_len, value) ==
    IF new_len <= Len(v)
        THEN v
        ELSE v \o [i \in 1..(new_len - Len(v)) |-> value]

\* Vec::resize(new_len, value): truncates, or extends with `value`; the
\* elements below min(old, new) length are kept as they are.
Resize(v, new_len, value) ==
    IF new_len <= Len(v)
        THEN SubSeq(v, 1, new_len)
        ELSE v \o [i \in 1..(new_len - Len(v)) |-> value]

\* a slice that hands the endpoint the whole vector
SliceFrom_Whole(v, p) == v

\* &self.data[p..] : the bytes from offset p to the end
SliceFrom(v, p) == SubSeq(v, p + 1, Len(v))

\* an endpoint handed the vector from its start
StoreAt_Front(v, p, bytes) ==
    [i \in 1..Len(v) |-> IF i <= Len(bytes) THEN bytes[i] ELSE v[i]]

\* the buffer after the endpoint stored `bytes` at the start of data[p..]
StoreAt(v, p, bytes) ==
    [i \in 1..Len(v) |->
        IF i > p /\ i <= p + Len(bytes) THEN bytes[i - p] ELSE v[i]]

(* ----------------------------- results --------------------------------- *)
\* Result<()> of super: Ok(()), Error::Other(box_err!(msg)), Error::Io(e)
Ok == [tag |-> "Ok", detail |-> ""]
Unit == [tag |-> "Unit", detail |-> ""]
Panic == [tag |-> "Panic", detail |-> "slice index out of range"]
PeerClosed == [tag |-> "Other", detail |-> "remote has closed the connection"]
ZeroWrite == [tag |-> "Other", detail |-> "can't write ZERO data"]
IoFailure(kind) == [tag |-> "Io", detail |-> kind]

WouldBlock == "WouldBlock"
ErrorKinds == {WouldBlock, "Interrupted", "ConnectionReset"}

(* ----------------------------- endpoints ------------------------------- *)
\* An endpoint is described by how it answers one attempt: it fails with an
\* io::Error of some kind, or it has `avail` bytes to give (Read) or room for
\* `room` bytes (Write).  It never reports more than the slice it was given.
NoEndpoint == [kind |-> "None", err |-> "", avail |-> <<>>, room |-> 0]

ReadEndpointsOver(S, n) ==
    {[kind |-> "Ok", err |-> "", avail |-> s, room |-> 0] : s \in SeqsUpTo(S, n)}
    \cup {[kind |-> "Err", err |-> k, avail |-> <<>>, room |-> 0] : k \in ErrorKinds}

WriteEndpointsOver(n) ==
    {[kind |-> "Ok", err |-> "", avail |-> <<>>, room |-> k] : k \in 0..n}
    \cup {[kind |-> "Err", err |-> k, avail |-> <<>>, room |-> 0] : k \in ErrorKinds}

\* r.read(buf): Ok(n) with the n bytes stored at the start of buf, or Err(e)
Read(e, buflen) ==
    IF e.kind = "Err"
        THEN [kind |-> "Err", err |-> e.err, n |-> 0, bytes |-> <<>>]
        ELSE [kind |-> "Ok", err |-> "", n |-> Min(Len(e.avail), buflen),
              bytes |-> SubSeq(e.avail, 1, Min(Len(e.avail), buflen))]

\* w.write(buf): Ok(n) with the first n bytes of buf taken, or Err(e)
Write(e, buf) ==
    IF e.kind = "Err"
        THEN [kind |-> "Err", err |-> e.err, n |-> 0, bytes |-> <<>>]
        ELSE [kind |-> "Ok", err |-> "", n |-> Min(e.room, Len(buf)),
              bytes |-> SubSeq(buf, 1, Min(e.room, Len(buf)))]

(* ------------------------------ Body ----------------------------------- *)
\* Body::remaining
Remaining(p, d) == IF p >= Len(d) THEN 0 ELSE Len(d) - p

remaining == Remaining(pos, data)

\* Body::len, Body::is_empty, Body::as_bytes
len == Len(data)
is_empty == Len(data) = 0
as_bytes == data

\* an early return that misses pos = len
Done_Strict(p, d) == p > Len(d)

\* an early return taken one byte too soon
Done_Early(p, d) == p + 1 >= Len(d)

\* an early return taken only at pos = len
Done_Exact(p, d) == p = Len(d)

\* the early return of read_from and write_to
Done(p, d) == p >= Len(d)

\* a read that takes Ok(0) for success
ReadResult_ZeroIsOk(res) ==
    IF res.kind = "Ok"
        THEN Ok
        ELSE IF res.err = WouldBlock THEN Ok ELSE IoFailure(res.err)

\* a read that swallows an interrupted call like a would-block
ReadResult_SwallowInterrupted(res) ==
    IF res.kind = "Ok"
        THEN IF res.n = 0 THEN PeerClosed ELSE Ok
        ELSE IF res.err \in {WouldBlock, "Interrupted"} THEN Ok ELSE IoFailure(res.err)

\* the match of read_from on the answer of r.read: the value returned
ReadResult(res) ==
    IF res.kind = "Ok"
        THEN IF res.n = 0 THEN PeerClosed ELSE Ok
        ELSE IF res.err = WouldBlock THEN Ok ELSE IoFailure(res.err)

\* a write that takes Ok(0) for success
WriteResult_ZeroIsOk(res) ==
    IF res.kind = "Ok"
        THEN Ok
        ELSE IF res.err = WouldBlock THEN Ok ELSE IoFailure(res.err)

\* a write that propagates would-block like any other error
WriteResult_BlockFails(res) ==
    IF res.kind = "Ok"
        THEN IF res.n = 0 THEN ZeroWrite ELSE Ok
        ELSE IoFailure(res.err)

\* the match of write_to on the answer of w.write: the value returned
WriteResult(res) ==
    IF res.kind = "Ok"
        THEN IF res.n = 0 THEN ZeroWrite ELSE Ok
        ELSE IF res.err = WouldBlock THEN Ok ELSE IoFailure(res.err)

\* a cursor rewound when the attempt fails
Advance_Rewind(p, res) == IF res.kind = "Ok" THEN p + res.n ELSE 0

\* a cursor assigned the count instead of advanced by it
Advance_Assign(p, res) == IF res.kind = "Ok" THEN res.n ELSE p

\* the cursor after the match: self.pos += n in the Ok(n) arm only
Advance(p, res) == IF res.kind = "Ok" THEN p + res.n ELSE p

\* the bounds check of the slice expression self.data[self.pos..]
InRange(p, d) == p <= Len(d)

\* the entry of hist for a direct change by the caller
Mark(name) == [op |-> name, kind |-> "None", err |-> "", bytes |-> <<>>]

\* one entry of hist
Entry(name, res) == [op |-> name, kind |-> res.kind, err |-> res.err, bytes |-> res.bytes]

\* Body::default
Init ==
    /\ pos = 0
    /\ data = <<>>
    /\ size = 0
    /\ op = "default"
    /\ ret = Unit
    /\ offered = NoEndpoint
    /\ attempts = 0
    /\ request = [off |-> 0, len |-> 0]
    /\ hist = <<>>

\* a reset that forgets the cursor
ResetPos_Keep(p) == p

\* Body::reset: self.pos = 0
ResetPos(p) == 0

reset(n) ==
    /\ pos' = ResetPos(pos)
    /\ data' = Resize(data, n, 0)
    /\ size' = n
    /\ op' = "reset"
    /\ ret' = Unit
    /\ offered' = NoEndpoint
    /\ attempts' = 0
    /\ request' = [off |-> 0, len |-> 0]
    /\ hist' = <<>>

\* Body::read_from
read_from(e) ==
    /\ op' = "read_from"
    /\ offered' = e
    /\ size' = size
    /\ IF Done(pos, data)
          THEN /\ ret' = Ok
               /\ attempts' = 0
               /\ request' = [off |-> 0, len |-> 0]
               /\ UNCHANGED <<pos, data, hist>>
          ELSE IF ~InRange(pos, data)
          THEN /\ ret' = Panic
               /\ attempts' = 0
               /\ request' = [off |-> 0, len |-> 0]
               /\ UNCHANGED <<pos, data, hist>>
          ELSE /\ LET res == Read(e, Len(SliceFrom(data, pos)))
                  IN /\ data' = StoreAt(data, pos, res.bytes)
                     /\ pos' = Advance(pos, res)
                     /\ ret' = ReadResult(res)
                     /\ hist' = Append(hist, Entry("read_from", res))
               /\ attempts' = 1
               /\ request' = [off |-> pos, len |-> Len(SliceFrom(data, pos))]

\* Body::write_to
write_to(e) ==
    /\ op' = "write_to"
    /\ offered' = e
    /\ size' = size
    /\ IF Done(pos, data)
          THEN /\ ret' = Ok
               /\ attempts' = 0
               /\ request' = [off |-> 0, len |-> 0]
               /\ UNCHANGED <<pos, data, hist>>
          ELSE IF ~InRange(pos, data)
          THEN /\ ret' = Panic
               /\ attempts' = 0
               /\ request' = [off |-> 0, len |-> 0]
               /\ UNCHANGED <<pos, data, hist>>
          ELSE /\ LET res == Write(e, SliceFrom(data, pos))
                  IN /\ pos' = Advance(pos, res)
                     /\ ret' = WriteResult(res)
                     /\ hist' = Append(hist, Entry("write_to", res))
               /\ data' = data
               /\ attempts' = 1
               /\ request' = [off |-> pos, len |-> Len(SliceFrom(data, pos))]

\* a cursor moved to the start whenever the caller changes the payload
AsMutPos_Rewind(p) == 0

\* impl AsMut<Vec<u8>> for Body hands out &mut self.data: pos is not touched
AsMutPos(p) == p

\* the caller changes the payload through as_mut() to the vector v
as_mut(v) ==
    /\ data' = v
    /\ pos' = AsMutPos(pos)
    /\ size' = size
    /\ op' = "as_mut"
    /\ ret' = Unit
    /\ offered' = NoEndpoint
    /\ attempts' = 0
    /\ request' = [off |-> 0, len |-> 0]
    /\ hist' = Append(hist, Mark("as_mut"))

\* the caller assigns the public field pos
set_pos(p) ==
    /\ pos' = p
    /\ data' = data
    /\ size' = size
    /\ op' = "set_pos"
    /\ ret' = Unit
    /\ offered' = NoEndpoint
    /\ attempts' = 0
    /\ request' = [off |-> 0, len |-> 0]
    /\ hist' = Append(hist, Mark("set_pos"))

(* --------------------------- specifications ---------------------------- *)
\* a call may invoke the endpoint only while hist has room for its answer
Room(cap) == Done(pos, data) \/ Len(hist) < cap

\* Spec: payloads of up to MaxSize bytes with contents, every endpoint answer
DoReset == \E n \in 0..MaxSize : reset(n)
DoReadFrom == \E e \in ReadEndpointsOver(Bytes, MaxSize) : Room(MaxHist) /\ read_from(e)
DoWriteTo == \E e \in WriteEndpointsOver(MaxSize) : Room(MaxHist) /\ write_to(e)

Next == DoReset \/ DoReadFrom \/ DoWriteTo

Spec == Init /\ [][Next]_vars

\* SpecWide: payloads of up to WideSize bytes, every byte 0, endpoints that
\* make progress or would block
Progressing(e) == e.kind = "Ok" => (Len(e.avail) > 0 \/ e.room > 0)
MayBlock(e) == e.kind = "Err" => e.err = WouldBlock

WideReaders == {e \in ReadEndpointsOver({0}, WideSize) : Progressing(e) /\ MayBlock(e)}
WideWriters == {e \in WriteEndpointsOver(WideSize) : Progressing(e) /\ MayBlock(e)}

WideReset == \E n \in 0..WideSize : reset(n)
WideReadFrom == \E e \in WideReaders : Room(WideHist) /\ read_from(e)
WideWriteTo == \E e \in WideWriters : Room(WideHist) /\ write_to(e)

NextWide == WideReset \/ WideReadFrom \/ WideWriteTo

SpecWide == Init /\ [][NextWide]_vars

\* SpecOneByte: a reader whose endpoint yields exactly one byte per call
OneByteEndpoints == {[kind |-> "Ok", err |-> "", avail |-> <<b>>, room |-> 0] : b \in Bytes}

OneByteReset == \E n \in 0..ByteSize : reset(n)
OneByteReadFrom == \E e \in OneByteEndpoints : read_from(e)

NextOneByte == OneByteReset \/ OneByteReadFrom

SpecOneByte == Init /\ [][NextOneByte]_vars

\* SpecRead: a reader filling payloads of up to StreamSize bytes
ReadReset == \E n \in 0..StreamSize : reset(n)
ReadReadFrom ==
    \E e \in ReadEndpointsOver(Bytes, StreamSize) : Room(StreamHist) /\ read_from(e)

NextRead == ReadReset \/ ReadReadFrom

SpecRead == Init /\ [][NextRead]_vars

\* SpecWrite: a writer draining payloads of up to StreamSize bytes that the
\* caller stores through as_mut()
WriteReset == \E n \in 0..StreamSize : reset(n)
WriteFill ==
    \E v \in SeqsUpTo(Bytes, StreamSize) : Len(hist) < StreamHist /\ as_mut(v)
WriteWriteTo ==
    \E e \in WriteEndpointsOver(StreamSize) : Room(StreamHist) /\ write_to(e)

NextWrite == WriteReset \/ WriteFill \/ WriteWriteTo

SpecWrite == Init /\ [][NextWrite]_vars

\* SpecMut: a caller that also changes data and pos directly; the bytes are
\* the fill value and one other value
MutBytes == {0, MaxByte}

MutReset == \E n \in 0..MaxSize : reset(n)
MutReadFrom ==
    \E e \in ReadEndpointsOver(MutBytes, MaxSize) : Room(MutHist) /\ read_from(e)
MutWriteTo == \E e \in WriteEndpointsOver(MaxSize) : Room(MutHist) /\ write_to(e)
MutAsMut == \E v \in SeqsUpTo(MutBytes, MaxSize) : Len(hist) < MutHist /\ as_mut(v)
MutSetPos == \E p \in 0..(MaxSize + 1) : Len(hist) < MutHist /\ set_pos(p)

NextMut == MutReset \/ MutReadFrom \/ MutWriteTo \/ MutAsMut \/ MutSetPos

SpecMut == Init /\ [][NextMut]_vars

\* SpecLive: one transfer.  The session sizes the buffer once, then calls
\* read_from or write_to at each readiness notification; the endpoint moves
\* at least one byte or would block, and it does not block forever.
Blocked(h) == Cardinality({i \in 1..Len(h) : h[i].kind = "Err"})

LiveBytes == {0, MaxByte}

LiveReaders ==
    {e \in ReadEndpointsOver(LiveBytes, LiveSize) : e.kind = "Ok" /\ Len(e.avail) > 0}
LiveWriters == {e \in WriteEndpointsOver(LiveSize) : e.kind = "Ok" /\ e.room > 0}
Blocker == [kind |-> "Err", err |-> WouldBlock, avail |-> <<>>, room |-> 0]

LiveReset == op = "default" /\ \E n \in 0..LiveSize : reset(n)
LiveProgress ==
    /\ op # "default"
    /\ \/ \E e \in LiveReaders : read_from(e)
       \/ \E e \in LiveWriters : write_to(e)
LiveBlock ==
    /\ op # "default"
    /\ Done(pos, data) \/ Blocked(hist) < LiveHist
    /\ read_from(Blocker) \/ write_to(Blocker)

NextLive == LiveReset \/ LiveProgress \/ LiveBlock

SpecLive == Init /\ [][NextLive]_vars /\ WF_vars(LiveProgress)

(* ------------------------------ claims --------------------------------- *)
Calls == {"read_from", "write_to"}

\* how the endpoint handed to the last call answers an attempt
EndOfStream(e) == e.kind = "Ok" /\ e.avail = <<>>
NoRoom(e) == e.kind = "Ok" /\ e.room = 0
Blocks(e) == e.kind = "Err" /\ e.err = WouldBlock
Fails(e) == e.kind = "Err" /\ e.err # WouldBlock

\* the bytes the endpoint reported in the attempts of h
RECURSIVE Moved(_)
Moved(h) == IF h = <<>> THEN 0 ELSE Len(h[1].bytes) + Moved(Tail(h))

\* C1: a read_from call made with remaining() > 0 on an endpoint that returns
\* 0 bytes and no error fails with "remote has closed the connection"; it does
\* not report success and the cursor is what it was before the call.
C1_ZeroReadIsPeerClosed ==
    [][(remaining > 0 /\ op' = "read_from" /\ EndOfStream(offered'))
           => (ret' = PeerClosed /\ ret' # Ok /\ attempts' = 1 /\ pos' = pos)]_vars

C1_Witness ==
    /\ op = "read_from" /\ EndOfStream(offered) /\ attempts = 1
    /\ ret = PeerClosed /\ pos = 1 /\ remaining = 1

\* C2: a read_from or write_to call whose endpoint raises would-block returns
\* success and leaves the cursor, hence remaining(), as before the call.
C2_WouldBlockIsNoProgress ==
    [][(op' \in Calls /\ Blocks(offered'))
           => (ret' = Ok /\ pos' = pos /\ Remaining(pos', data') = remaining)]_vars

C2_Witness ==
    /\ Len(hist) = 2 /\ remaining > 0 /\ ret = Ok /\ attempts = 1
    /\ hist[1].op = "read_from" /\ hist[1].err = WouldBlock
    /\ hist[2].op = "write_to" /\ hist[2].err = WouldBlock

\* C3: in every state reached from the default buffer by reset, read_from and
\* write_to calls, 0 <= cursor <= payload length, and remaining() is the
\* payload length minus the cursor and is not negative.
C3_CursorWithinPayload ==
    /\ 0 <= pos
    /\ pos <= Len(data)
    /\ remaining = Len(data) - pos
    /\ remaining >= 0

C3_Witness ==
    /\ pos = Len(data) /\ pos = 2 /\ remaining = 0 /\ Len(hist) = 2
    /\ hist[1].op = "read_from" /\ Len(hist[1].bytes) = 1
    /\ hist[2].op = "write_to" /\ Len(hist[2].bytes) = 1

\* C4: since the last reset(size) the cursor is the sum of the byte counts the
\* endpoint reported (would-block counting 0) and remaining() is 0 exactly when
\* that sum is size; with size 10 the outcomes 4 bytes, would-block, 6 bytes
\* give cursor 4 (incomplete), 4 (incomplete), 10 (complete).
Is4(h) == Len(h) >= 1 /\ h[1].kind = "Ok" /\ Len(h[1].bytes) = 4
Is4Block(h) == Is4(h) /\ Len(h) >= 2 /\ h[2].kind = "Err" /\ h[2].err = WouldBlock
Is4Block6(h) == Is4Block(h) /\ Len(h) >= 3 /\ h[3].kind = "Ok" /\ Len(h[3].bytes) = 6

C4_CursorIsSumOfCounts ==
    /\ pos = Moved(hist)
    /\ remaining = 0 <=> Moved(hist) = size
    /\ (size = 10 /\ Is4(hist) /\ Len(hist) = 1) => (pos = 4 /\ remaining > 0)
    /\ (size = 10 /\ Is4Block(hist) /\ Len(hist) = 2) => (pos = 4 /\ remaining > 0)
    /\ (size = 10 /\ Is4Block6(hist) /\ Len(hist) = 3) => (pos = 10 /\ remaining = 0)

C4_Witness ==
    /\ size = 10 /\ Is4Block6(hist) /\ Len(hist) = 3
    /\ \A i \in 1..3 : hist[i].op = "read_from"
    /\ pos = 10 /\ remaining = 0 /\ ret = Ok

\* C5: a write_to call made with remaining() > 0 on an endpoint that accepts
\* 0 bytes and raises no error fails with "can't write ZERO data"; it does not
\* report success and the cursor is what it was before the call.
C5_ZeroWriteFails ==
    [][(remaining > 0 /\ op' = "write_to" /\ NoRoom(offered'))
           => (ret' = ZeroWrite /\ ret' # Ok /\ attempts' = 1 /\ pos' = pos)]_vars

C5_Witness ==
    /\ op = "write_to" /\ NoRoom(offered) /\ attempts = 1
    /\ ret = ZeroWrite /\ pos = 1 /\ remaining = 1

\* C6: a read_from or write_to call whose endpoint raises an error of a kind
\* other than would-block (an interrupted call included) fails with Error::Io
\* carrying that error, after the one attempt, with the cursor unchanged.
C6_OtherErrorsPropagate ==
    [][(remaining > 0 /\ op' \in Calls /\ Fails(offered'))
           => (ret' = IoFailure(offered'.err) /\ attempts' = 1 /\ pos' = pos)]_vars

C6_Witness ==
    /\ Len(hist) = 2 /\ attempts = 1 /\ pos = 0 /\ remaining > 0
    /\ hist[1].op = "write_to" /\ hist[1].err = "ConnectionReset"
    /\ hist[2].op = "read_from" /\ hist[2].err = "Interrupted"
    /\ ret = IoFailure("Interrupted")

\* C7: once remaining() = 0 (a buffer of size 0 included), a read_from or
\* write_to call returns success whatever its endpoint would answer, leaves
\* the cursor and the payload unchanged and does not invoke the endpoint.
C7_CompleteIsNoOp ==
    [][(remaining = 0 /\ op' \in Calls)
           => (ret' = Ok /\ pos' = pos /\ data' = data
               /\ attempts' = 0 /\ hist' = hist)]_vars

C7_Witness ==
    /\ remaining = 0 /\ pos = 2 /\ Len(data) = 2
    /\ op = "read_from" /\ Fails(offered) /\ attempts = 0 /\ ret = Ok

\* C8: whatever the state before it, reset(size) leaves the cursor 0, the
\* payload length size and remaining() = size.
C8_ResetSizesBuffer ==
    op = "reset" => (ret = Unit /\ pos = 0 /\ Len(data) = size /\ remaining = size)

C8_Witness ==
    /\ op = "reset" /\ size = 1 /\ remaining = 1 /\ data = <<1>>

\* C9: after reset no byte stored in the payload before the reset is
\* observable through as_bytes(): the payload reads as size fill bytes.
C9_ResetDiscardsContent ==
    op = "reset" => as_bytes = [i \in 1..size |-> 0]

\* C10: after reset(n), with an endpoint that yields exactly one byte per call,
\* each read_from call made with remaining() > 0 succeeds and moves the cursor
\* by one, so the cursor is the number of calls made and reaches n, with
\* remaining() = 0, at the n-th call and not before.
C10_OneBytePerCall ==
    [][/\ op' = "reset" => (pos' = 0 /\ Remaining(pos', data') = size')
       /\ (op' = "read_from" /\ remaining > 0)
              => (ret' = Ok /\ pos' = pos + 1
                  /\ Remaining(pos', data') = remaining - 1)
       /\ pos' = Len(hist')
       /\ Remaining(pos', data') = size' - Len(hist')]_vars

C10_Witness ==
    /\ size = 3 /\ Len(hist) = 3 /\ pos = 3 /\ remaining = 0
    /\ op = "read_from" /\ attempts = 1 /\ ret = Ok

\* C11: across read_from and write_to calls the cursor never decreases (it
\* grows when bytes moved and stays when none did); a step that lowers it is
\* a reset, which sets it to 0.
C11_CursorMonotonic ==
    [][/\ op' \in Calls => pos' >= pos
       /\ (op' \in Calls /\ attempts' = 1 /\ ret' = Ok /\ ~Blocks(offered'))
              => pos' > pos
       /\ pos' < pos => (op' = "reset" /\ pos' = 0)]_vars

C11_Witness ==
    /\ Len(hist) = 2 /\ pos = 1 /\ remaining = 1
    /\ hist[1].kind = "Ok" /\ Len(hist[1].bytes) = 1
    /\ hist[2].kind = "Err" /\ hist[2].err = "ConnectionReset"

\* C12: a read_from or write_to call attempts the endpoint exactly once when
\* remaining() > 0, handing it the remaining() bytes at offset cursor, and not
\* at all when remaining() = 0; whatever the answer, no second attempt is made.
C12_OneAttemptPerCall ==
    [][op' \in Calls =>
          /\ attempts' \in {0, 1}
          /\ remaining > 0 =>
                 /\ attempts' = 1
                 /\ request' = [off |-> pos, len |-> remaining]
                 /\ Len(hist') = Len(hist) + 1
          /\ remaining = 0 => (attempts' = 0 /\ hist' = hist)]_vars

C12_Witness ==
    /\ op = "write_to" /\ attempts = 1 /\ request = [off |-> 1, len |-> 1]
    /\ Blocks(offered) /\ Len(hist) = 2 /\ pos = 1

\* C13 as claimed: a step from remaining() > 0 to remaining() = 0 is a
\* read_from or write_to call that transferred bytes, never a reset.
C13_OnlyTransfersComplete ==
    [][(remaining > 0 /\ Remaining(pos', data') = 0)
           => (op' \in Calls /\ attempts' = 1 /\ ret' = Ok /\ pos' > pos)]_vars

\* C13 as amended: a step from remaining() > 0 to remaining() = 0 is a
\* read_from or write_to call that transferred bytes, or reset(0), which
\* sizes the buffer for an empty payload; reset(size) with size > 0 never is.
C13_TransfersOrEmptyReset ==
    [][(remaining > 0 /\ Remaining(pos', data') = 0)
           => \/ op' \in Calls /\ attempts' = 1 /\ ret' = Ok /\ pos' > pos
              \/ op' = "reset" /\ size' = 0 /\ Len(data') = 0]_vars

C13_Witness ==
    /\ remaining = 0 /\ Len(data) = 2 /\ op = "write_to" /\ attempts = 1
    /\ request = [off |-> 0, len |-> 2] /\ ret = Ok

\* the bytes the endpoint moved in the attempts of h, in order
RECURSIVE Stream(_)
Stream(h) == IF h = <<>> THEN <<>> ELSE h[1].bytes \o Stream(Tail(h))

\* C14: a read_from attempt that receives n bytes stores them at
\* payload[cursor .. cursor+n] and changes no other byte, so the payload below
\* the cursor is the stream delivered since the reset, and when remaining()
\* reaches 0 as_bytes() is the first size bytes delivered, in order.
C14_ReadKeepsStream ==
    [][/\ (op' = "read_from" /\ attempts' = 1) =>
              LET b == hist'[Len(hist')].bytes
                  n == Len(b)
              IN /\ b = SubSeq(offered'.avail, 1, n)
                 /\ pos' = pos + n
                 /\ Len(data') = Len(data)
                 /\ SubSeq(data', 1, pos) = SubSeq(data, 1, pos)
                 /\ SubSeq(data', pos + 1, pos + n) = b
                 /\ SubSeq(data', pos + n + 1, Len(data'))
                        = SubSeq(data, pos + n + 1, Len(data))
       /\ SubSeq(data', 1, pos') = Stream(hist')
       /\ Remaining(pos', data') = 0
              => (data' = Stream(hist') /\ Len(Stream(hist')) = size')]_vars

C14_Witness ==
    /\ size = 2 /\ remaining = 0 /\ Len(hist) = 3 /\ as_bytes = <<1, 0>>
    /\ hist[1].bytes = <<1>> /\ hist[2].err = WouldBlock /\ hist[3].bytes = <<0>>
    /\ offered.avail = <<0, 1>>

\* h is some payload changes followed by write_to attempts only
SetThenWritten(h) ==
    \E k \in 0..Len(h) :
        \A i \in 1..Len(h) :
            h[i].op = (IF i <= k THEN "as_mut" ELSE "write_to")

\* C15: write_to never modifies the payload, and once the payload is set the
\* bytes the endpoint accepted in the write_to calls since then are, in order,
\* payload[0 .. cursor]; at remaining() = 0 they are the whole payload.
C15_WriteDrainsPayload ==
    [][/\ op' = "write_to" => data' = data
       /\ (op' = "write_to" /\ attempts' = 1) =>
              /\ pos' - pos = Min(offered'.room, remaining)
              /\ hist'[Len(hist')].bytes = SubSeq(data, pos + 1, pos')
       /\ SetThenWritten(hist') =>
              /\ pos' <= Len(data')
              /\ Stream(hist') = SubSeq(data', 1, pos')
              /\ Remaining(pos', data') = 0 => Stream(hist') = data']_vars

C15_Witness ==
    /\ Len(hist) = 3 /\ hist[1].op = "as_mut" /\ as_bytes = <<1, 0>>
    /\ hist[2].bytes = <<1>> /\ hist[3].bytes = <<0>>
    /\ op = "write_to" /\ remaining = 0 /\ pos = 2

\* C17: a change of the payload through as_mut() leaves the cursor as it is;
\* when the caller's change of data or pos leaves cursor >= payload length,
\* remaining() is 0 and read_from and write_to return success without
\* invoking the endpoint, without slicing out of range and without changing
\* the buffer, which thus counts as complete for the new payload.
C17_StaleCursorReadsComplete ==
    [][/\ op' = "as_mut" => pos' = pos
       /\ (op' \in {"as_mut", "set_pos"} /\ pos' >= Len(data'))
              => Remaining(pos', data') = 0
       /\ (pos >= Len(data) /\ op' \in Calls)
              => (ret' = Ok /\ attempts' = 0 /\ pos' = pos
                  /\ data' = data /\ hist' = hist)
       /\ ret' # Panic]_vars

C17_Witness ==
    /\ op \in Calls /\ ret = Ok /\ attempts = 0 /\ remaining = 0
    /\ pos = 2 /\ as_bytes = <<1>> /\ Len(hist) = 2
    /\ hist[1].op = "read_from" /\ Len(hist[1].bytes) = 2
    /\ hist[2].op = "as_mut"

\* the attempts of h that moved bytes
Progressed(h) == Cardinality({i \in 1..Len(h) : h[i].kind = "Ok" /\ Len(h[i].bytes) > 0})

\* C16: when the caller keeps calling and the endpoint neither fails nor
\* blocks forever, a buffer with remaining() > 0 eventually has
\* remaining() = 0, after at most size attempts that moved bytes, each of
\* which raised the cursor by at least 1.
C16_EventuallyComplete ==
    /\ [](Progressed(hist) <= pos /\ pos <= size)
    /\ (remaining > 0) ~> (remaining = 0)

C16_Witness ==
    /\ size = 2 /\ remaining = 0 /\ pos = 2 /\ ret = Ok
    /\ Progressed(hist) = 2 /\ Blocked(hist) = 1
    /\ hist[2].err = WouldBlock /\ hist[3].op = "write_to"

====
